---- MODULE Spec2Model ----
(***************************************************************************)
(* The on-device order-queue controller of the restaurant kiosk            *)
(* (src/unnamed/part_002, lines 165-704: the size-bounded firmware         *)
(* revision).  One iteration of loop() is three steps, in program order:   *)
(*   MqttService  (lines 312-317)  connectMQTT() or mqtt.loop(), which     *)
(*                                 may run mqttCallback on one message;    *)
(*   DoneButton   (lines 319-346)  the DONE button, ADVANCE;               *)
(*   ScrollButton (lines 348-366)  the SCROLL button, then delay().        *)
(* pc is the position of the single thread of control in that loop.        *)
(*                                                                         *)
(* Time.  The code compares millis() - lastX with a constant and sets      *)
(* lastX = millis().  The model keeps the difference itself: doneAge is    *)
(* millis() - lastDoneAction, scrollAge is millis() - lastScrollAction,    *)
(* attemptAge is millis() - lastAttempt, each saturated at the constant    *)
(* it is compared with (a larger difference decides nothing more).         *)
(*                                                                         *)
(* JSON documents are values: an order is a record of the fields the code  *)
(* reads, queueDoc is the sequence of queued orders.  The ArduinoJson      *)
(* memory pools (their capacity, and the lifetime of the strings a parsed  *)
(* document refers to) are outside the model.  seq is not a field of the   *)
(* program's order: it numbers the accepted orders in arrival order so     *)
(* that two queue entries with equal content can be told apart.            *)
(***************************************************************************)
EXTENDS Integers, Sequences, FiniteSets, TLC

(* ---------------------------- bounds ---------------------------------- *)
\* orders accepted into the queue in one run
MaxOrders == 6
\* the same where a step may meet a fault, and where iterations may be short
MaxOrdersFault == 3
MaxOrdersTimed == 2
\* messages the producer hands to its MQTT client in one run
MaxSent == 2
\* orders accepted by the debounced firmware revision in one run
MaxOrdersResto == 2
\* orders accepted by it while its buttons are left alone
MaxOrdersRestoFill == 11
\* duration of one loop iteration, in ms (delay(10) and the blocking calls)
ShortTick == 500
LongTick == 5000

(* ------------------------ program constants --------------------------- *)
QUEUE_LIMIT == 5
MAX_MESSAGE == 3000
DONE_COOLDOWN == 3000
SCROLL_COOLDOWN == 1000
ATTEMPT_INTERVAL == 5000
SetupDelay == 100
LCD_COLS == 20
NAME_MAX == 15
VISIBLE_ROWS == 3
NAME_LIMIT == 30
DEBOUNCE_MS == 100
LOOP_DELAY == 10
NOTICE_DELAY == 500

LOW == "LOW"
HIGH == "HIGH"

(* ------------------------------ text ---------------------------------- *)
DigitChar == <<"0", "1", "2", "3", "4", "5", "6", "7", "8", "9">>

RECURSIVE Dec(_)
\* "%d" of a non-negative int
Dec(n) == IF n < 10 THEN <<DigitChar[n + 1]>>
          ELSE Dec(n \div 10) \o <<DigitChar[(n % 10) + 1]>>

Take(s, n) == IF Len(s) <= n THEN s ELSE SubSeq(s, 1, n)

\* one LCD row after lcd.clear() and lcd.print(s) at column 0
Row(s) == [i \in 1..LCD_COLS |-> IF i <= Len(s) THEN s[i] ELSE " "]

BlankRow == Row(<<>>)

TxtNoOrders == <<"N","o"," ","o","r","d","e","r","s"," ","q","u","e","u","e","d">>
TxtTable == <<"T","a","b","l","e",":"," ">>
TxtBurger == <<"B","u","r","g","e","r">>
TxtSoup == <<"S","o","u","p">>
TxtFries == <<"F","r","i","e","s">>
TxtCola == <<"C","o","l","a">>
TxtCake == <<"C","a","k","e">>
TxtWrap == <<"G","r","i","l","l","e","d"," ","C","h","i","c","k","e","n"," ","W","r","a","p">>

(* --------------------------- payloads --------------------------------- *)
Item(n, q) == [name |-> n, quantity |-> q]

OrderA == [orderId |-> "A", tableNumber |-> 5, items |-> <<Item(TxtBurger, 1)>>]
OrderB == [orderId |-> "B", tableNumber |-> 12,
           items |-> <<Item(TxtSoup, 2), Item(TxtWrap, 12), Item(TxtFries, 1),
                       Item(TxtCola, 3), Item(TxtCake, 1)>>]
OrderE == [orderId |-> "", tableNumber |-> 7,
           items |-> <<Item(TxtSoup, 1), Item(TxtFries, 2), Item(TxtCola, 1),
                       Item(TxtCake, 2)>>]
\* an order queued before the device was switched off
OrderP == [orderId |-> "P", tableNumber |-> 9,
           items |-> <<Item(TxtCake, 1), Item(TxtCola, 2)>>]
NoFields == [orderId |-> "", tableNumber |-> 0, items |-> <<>>]
NoOrder == [orderId |-> "", tableNumber |-> 0, items |-> <<>>, seq |-> 0]

\* an inbound MQTT payload: its length in bytes, whether deserializeJson
\* accepts it, whether the parsed object has the key orderId, and the fields
Payload(l, j, k, o) == [length |-> l, json |-> j, hasOrderId |-> k, order |-> o]

NoPayload == Payload(-1, FALSE, FALSE, NoFields)
PayEmpty == Payload(0, FALSE, FALSE, NoFields)
PayHuge == Payload(MAX_MESSAGE + 1, TRUE, TRUE, OrderA)
PayJunk == Payload(7, FALSE, FALSE, NoFields)
PayNoId == Payload(40, TRUE, FALSE, [OrderA EXCEPT !.orderId = ""])
PayA == Payload(96, TRUE, TRUE, OrderA)
PayB == Payload(MAX_MESSAGE, TRUE, TRUE, OrderB)
PayE == Payload(210, TRUE, TRUE, OrderE)

Payloads == {PayEmpty, PayHuge, PayJunk, PayNoId, PayA, PayB, PayE}

(* ---------------------------- state ----------------------------------- *)
VARIABLES
  pc,               \* "mqtt", "done", "scroll": the next step of loop()
  connected,        \* mqtt.connected()
  queueDoc,         \* the in-memory queue (StaticJsonDocument queueDoc)
  file,             \* /orders.json on LittleFS
  itemScrollIndex,  \* the display cursor
  lcd,              \* the four rows of the 20x4 display
  doneAge,          \* millis() - lastDoneAction, saturated
  scrollAge,        \* millis() - lastScrollAction, saturated
  attemptAge,       \* millis() - lastAttempt, saturated
  accepted,         \* number of orders accepted so far
  lastDone,         \* seq of the order the last ADVANCE completed, 0 if none
  lastLost,         \* that order's completion notice did not leave the device
  ev,               \* what the last step did (its outputs)
  press,            \* the buttons as the loop sampled them (history)
  prod,             \* the producer: the MQTTService object of the server
  deb               \* the debounce state of the buttons in src/resto.ino

vars == <<pc, connected, queueDoc, file, itemScrollIndex, lcd,
          doneAge, scrollAge, attemptAge, accepted, lastDone, lastLost, ev,
          press, prod, deb>>

\* the variables of the controller of src/unnamed/part_002
controller == <<pc, connected, queueDoc, file, itemScrollIndex, lcd,
                doneAge, scrollAge, attemptAge, accepted, lastDone, lastLost,
                ev, press>>

\* the outputs of a step that did nothing: the payload delivered, what
\* mqttCallback decided, the calls made (in order), the seq of the evicted
\* order, the command dispatched, the notices published
Quiet == [step |-> "none", msg |-> NoPayload, verdict |-> "none", ops |-> <<>>,
          evicted |-> 0, cmd |-> "none", pub |-> <<>>]

\* e is the record of a step in which mqttCallback ran on a payload
Delivered(e) ==
  e.verdict \in {"empty", "toolarge", "nomem", "parse", "noid", "queued"}

\* the step recorded in e made the call op
Did(e, op) == \E i \in 1..Len(e.ops) : e.ops[i] = op

Min(a, b) == IF a < b THEN a ELSE b

(* ------------------------ the flash store ----------------------------- *)
\* /orders.json: absent, or holding a JSON array, or holding text that
\* deserializeJson rejects (an empty or truncated file)
FileArray(q) == [exists |-> TRUE, valid |-> TRUE, content |-> q]
FileCorrupt == [exists |-> TRUE, valid |-> FALSE, content |-> <<>>]
FileMissing == [exists |-> FALSE, valid |-> FALSE, content |-> <<>>]

\* what can go wrong in a step: LittleFS.open(.., "w") fails, serializeJson
\* writes 0 bytes, LittleFS.open(.., "r") fails, malloc fails, publish fails
AllFaults == {"wopen", "wzero", "ropen", "nomem", "pubfail"}
NoFaults == {}

\* a save that is put off: the file is left as it is
SaveDeferred(q, f, fault) == f

\* saveQueueToFile: the file after the call
saveQueueToFile(q, f, fault) ==
  IF fault = "wopen" THEN f
  ELSE IF fault = "wzero" THEN FileCorrupt
  ELSE FileArray(q)

SaveOps(fault) == IF fault = "wopen" THEN <<"save">> ELSE <<"save", "write">>

\* a load that does not notice that the file could not be opened
LoadIgnoresOpenFailure(f, fault) ==
  IF ~f.exists
    THEN [q |-> <<>>, file |-> IF fault = "wopen" THEN f ELSE FileArray(<<>>)]
  ELSE IF ~f.valid THEN [q |-> <<>>, file |-> f]
  ELSE [q |-> f.content, file |-> f]

\* loadQueueFromFile: the queue it leaves in queueDoc and the file after it
loadQueueFromFile(f, fault) ==
  IF ~f.exists
    THEN [q |-> <<>>, file |-> IF fault = "wopen" THEN f ELSE FileArray(<<>>)]
  ELSE IF fault = "ropen" THEN [q |-> <<>>, file |-> f]
  ELSE IF ~f.valid THEN [q |-> <<>>, file |-> f]
  ELSE [q |-> f.content, file |-> f]

LoadOps(f, fault) ==
  IF ~f.exists /\ fault # "wopen" THEN <<"load", "write">> ELSE <<"load">>

(* --------------------------- queue ops -------------------------------- *)
queueEmpty(q) == Len(q) = 0

getCurrentOrder(q) == IF Len(q) = 0 THEN NoOrder ELSE q[1]

\* a queue that drops its newest entry instead of its oldest
RemoveLast(q) == IF Len(q) = 0 THEN q ELSE SubSeq(q, 1, Len(q) - 1)

\* arr.remove(0)
RemoveFirst(q) == IF Len(q) = 0 THEN q ELSE Tail(q)

\* mqttCallback, lines 464-477: the order copied into the queue
Entry(o, n) == [orderId |-> o.orderId, tableNumber |-> o.tableNumber,
                items |-> o.items, seq |-> n]

\* a capacity test that is one too late
QueueOverfull(q) == Len(q) > QUEUE_LIMIT

QueueFull(q) == Len(q) >= QUEUE_LIMIT

\* an enqueue that makes room at the wrong end
EnqueueDropNewest(q, e) ==
  Append(IF QueueFull(q) THEN SubSeq(q, 1, Len(q) - 1) ELSE q, e)

\* a callback that leaves the order out of the queue
EnqueueLater(q, e) == q

Enqueue(q, e) == Append(IF QueueFull(q) THEN RemoveFirst(q) ELSE q, e)

(* ---------------------------- display --------------------------------- *)
\* snprintf(line1, 21, "Table: %d", tableNum)
TableLine(t) == Take(TxtTable \o Dec(t), LCD_COLS)

\* an item line that cuts only the whole line, not the name
ItemLineWhole(it) ==
  Take(it.name \o <<" ", "x">> \o Dec(it.quantity), LCD_COLS)

\* snprintf(itemBuffer, 21, "%.15s x%d", name, qty)
ItemLine(it) ==
  Take(Take(it.name, NAME_MAX) \o <<" ", "x">> \o Dec(it.quantity), LCD_COLS)

\* displayCurrentOrder after its reload: what the four rows show
Render(q, idx) ==
  IF queueEmpty(q)
    THEN <<Row(TxtNoOrders), BlankRow, BlankRow, BlankRow>>
    ELSE LET its == getCurrentOrder(q).items
             line(r) == IF idx + r < Len(its) THEN Row(ItemLine(its[idx + r + 1]))
                        ELSE BlankRow
         IN <<Row(TableLine(getCurrentOrder(q).tableNumber)),
              line(0), line(1), line(2)>>

\* displayCurrentOrder: reload the queue from the file, then draw it
displayCurrentOrder(f, idx, fault) ==
  LET ld == loadQueueFromFile(f, fault)
  IN [q |-> ld.q, file |-> ld.file, lcd |-> Render(ld.q, idx),
      ops |-> LoadOps(f, fault) \o <<"lcd">>]

(* ---------------------------- scrolling ------------------------------- *)
\* a scroll that wraps one window early
NextScrollEarlyWrap(idx, n) ==
  IF n > VISIBLE_ROWS
    THEN IF idx + 1 >= n - VISIBLE_ROWS THEN 0 ELSE idx + 1
    ELSE 0

\* loop, lines 354-361: the cursor after a SCROLL on an order of n items
NextScroll(idx, n) ==
  IF n > VISIBLE_ROWS
    THEN IF idx + 1 > n - VISIBLE_ROWS THEN 0 ELSE idx + 1
    ELSE 0

(* --------------------------- mqttCallback ----------------------------- *)
\* a size check that also rejects a payload of exactly MAX_MESSAGE bytes
TooLargeInclusive(length) == length >= MAX_MESSAGE

TooLarge(length) == length > MAX_MESSAGE

\* a validation without the containsKey("orderId") test
VerdictSkipsIdCheck(m, fault) ==
  IF m.length = 0 THEN "empty"
  ELSE IF TooLarge(m.length) THEN "toolarge"
  ELSE IF fault = "nomem" THEN "nomem"
  ELSE IF ~m.json THEN "parse"
  ELSE "queued"

\* the checks of lines 406-456, in order
Verdict(m, fault) ==
  IF m.length = 0 THEN "empty"
  ELSE IF TooLarge(m.length) THEN "toolarge"
  ELSE IF fault = "nomem" THEN "nomem"
  ELSE IF ~m.json THEN "parse"
  ELSE IF ~m.hasOrderId THEN "noid"
  ELSE "queued"

\* a callback that sounds the alert for every payload that passes the size
\* checks, before it is validated
VerdictOpsBeepFirst(v) ==
  CASE v = "empty" -> <<>>
    [] v = "toolarge" -> <<>>
    [] v = "nomem" -> <<"malloc">>
    [] OTHER -> <<"beep", "malloc", "parse", "free">>

VerdictOps(v) ==
  CASE v = "empty" -> <<>>
    [] v = "toolarge" -> <<>>
    [] v = "nomem" -> <<"malloc">>
    [] v = "parse" -> <<"malloc", "parse", "free">>
    [] v = "noid" -> <<"malloc", "parse", "free">>
    [] OTHER -> <<"malloc", "parse", "free">>

\* the whole callback on payload m: the new values of everything it can touch
mqttCallback(m, fault) ==
  LET v == Verdict(m, fault)
      base == [Quiet EXCEPT !.step = "mqtt", !.msg = m, !.verdict = v,
                            !.ops = VerdictOps(v)]
  IN IF v # "queued"
       THEN [q |-> queueDoc, file |-> file, idx |-> itemScrollIndex,
             lcd |-> lcd, n |-> accepted, ev |-> base]
       ELSE
         LET e == Entry(m.order, accepted + 1)
             arr == Enqueue(queueDoc, e)
             f1 == saveQueueToFile(arr, file, fault)
             only == Len(arr) = 1
             d == displayCurrentOrder(f1, 0, fault)
             ops1 == base.ops
                       \o (IF QueueFull(queueDoc) THEN <<"evict">> ELSE <<>>)
                       \o <<"append">> \o SaveOps(fault) \o <<"beep">>
         IN [q |-> IF only THEN d.q ELSE arr,
             file |-> IF only THEN d.file ELSE f1,
             idx |-> IF only THEN 0 ELSE itemScrollIndex,
             lcd |-> IF only THEN d.lcd ELSE lcd,
             n |-> accepted + 1,
             ev |-> [base EXCEPT
                       !.ops = IF only THEN ops1 \o d.ops ELSE ops1,
                       !.evicted = IF QueueFull(queueDoc)
                                     THEN getCurrentOrder(queueDoc).seq ELSE 0]]

(* ------------------------------ steps --------------------------------- *)
\* a connectMQTT without the interval between attempts
NeverThrottled == FALSE

\* connectMQTT, line 375: the early return
Throttled == attemptAge < ATTEMPT_INTERVAL

\* a connectMQTT that does not subscribe
ConnectOpsNoSubscribe(ok) == <<"connect">>

\* connectMQTT, lines 385-399: the calls of an attempt that succeeds or fails
ConnectOps(ok) == IF ok THEN <<"connect", "subscribe">> ELSE <<"connect">>

\* loop, lines 312-317, with connectMQTT (372-400) and mqttCallback; H says
\* whether the history is kept
MqttStep(F, maxOrders, H) ==
  /\ pc = "mqtt"
  /\ pc' = "done"
  /\ UNCHANGED <<doneAge, scrollAge, lastDone, lastLost, prod, deb>>
  /\ press' = IF H /\ ~connected /\ ~Throttled
                THEN [press EXCEPT !.link.since = 0]
                ELSE press
  /\ IF ~connected
       THEN /\ UNCHANGED <<queueDoc, file, itemScrollIndex, lcd, accepted>>
            /\ IF Throttled
                 THEN /\ UNCHANGED <<connected, attemptAge>>
                      /\ ev' = [Quiet EXCEPT !.step = "mqtt"]
                 ELSE \E ok \in BOOLEAN :
                        /\ connected' = ok
                        /\ attemptAge' = 0
                        /\ ev' = [Quiet EXCEPT
                                    !.step = "mqtt",
                                    !.ops = ConnectOps(ok)]
       ELSE /\ UNCHANGED attemptAge
            /\ \/ /\ UNCHANGED <<connected, queueDoc, file, itemScrollIndex,
                                 lcd, accepted>>
                  /\ ev' = [Quiet EXCEPT !.step = "mqtt"]
               \/ /\ connected' = FALSE
                  /\ UNCHANGED <<queueDoc, file, itemScrollIndex, lcd, accepted>>
                  /\ ev' = [Quiet EXCEPT !.step = "mqtt", !.verdict = "lost"]
               \/ \E m \in Payloads, fault \in {"ok"} \cup F :
                    LET r == mqttCallback(m, fault)
                    IN /\ r.n <= maxOrders
                       /\ UNCHANGED connected
                       /\ queueDoc' = r.q
                       /\ file' = r.file
                       /\ itemScrollIndex' = r.idx
                       /\ lcd' = r.lcd
                       /\ accepted' = r.n
                       /\ ev' = r.ev

\* publishOrderDone: the notices that leave the device
publishOrderDone(oid, fault) ==
  IF connected /\ fault # "pubfail" THEN <<[orderId |-> oid]>> ELSE <<>>

\* The history of one button: level is the last sample of its pin; a press
\* is a run of consecutive LOW samples; fired says that the press in progress
\* has had a command dispatched, late that it began less than the cooldown
\* after the previous dispatch; since is the time since the last dispatch
\* (the cooldown if there was none), measured apart from lastDoneAction and
\* lastScrollAction.
Released(cooldown) ==
  [level |-> HIGH, fired |-> FALSE, late |-> FALSE, since |-> cooldown]

\* link.since is the time since the last connect attempt (the interval if
\* there was none), measured apart from lastAttempt
NoPress == [done |-> Released(DONE_COOLDOWN), scroll |-> Released(SCROLL_COOLDOWN),
            link |-> [since |-> ATTEMPT_INTERVAL]]

\* the history b after a sample pin that was, or was not, dispatched
Sampled(b, pin, dispatched, cooldown) ==
  IF pin = HIGH THEN [b EXCEPT !.level = HIGH, !.fired = FALSE, !.late = FALSE]
  ELSE LET begins == b.level = HIGH
       IN [level |-> LOW,
           fired |-> IF begins THEN dispatched ELSE (b.fired \/ dispatched),
           late |-> IF begins THEN b.since < cooldown ELSE b.late,
           since |-> IF dispatched THEN 0 ELSE b.since]

\* a handler that keeps the order whose notice did not leave the device
CompletedKeepsUnpublished(q, pub) == IF pub = <<>> THEN q ELSE RemoveFirst(q)

\* loop, lines 333-336: the queue after the handler of DONE, whatever
\* publishOrderDone did
Completed(q, pub) == RemoveFirst(q)

\* a DONE test without the cooldown
DoneEligibleAnyTime(pin) == pin = LOW

DoneEligible(pin) == pin = LOW /\ doneAge >= DONE_COOLDOWN

\* loop, lines 319-346; H says whether the history of the buttons is kept
DoneStep(F, H) ==
  /\ pc = "done"
  /\ pc' = "scroll"
  /\ UNCHANGED <<connected, scrollAge, attemptAge, accepted, prod, deb>>
  /\ \E pin \in {LOW, HIGH}, fault \in {"ok"} \cup F :
     /\ press' = IF H THEN [press EXCEPT
                               !.done = Sampled(@, pin, DoneEligible(pin),
                                                DONE_COOLDOWN)]
                  ELSE press
     /\ IF ~DoneEligible(pin)
         THEN /\ UNCHANGED <<queueDoc, file, itemScrollIndex, lcd, doneAge,
                              lastDone, lastLost>>
              /\ ev' = [Quiet EXCEPT !.step = "done"]
         ELSE
           /\ doneAge' = 0
           /\ IF ~queueEmpty(queueDoc)
                THEN LET oid == getCurrentOrder(queueDoc).orderId
                         pub == IF oid # "" THEN publishOrderDone(oid, fault)
                                ELSE <<>>
                         q1 == Completed(queueDoc, pub)
                         f1 == saveQueueToFile(q1, file, fault)
                         d == displayCurrentOrder(f1, 0, fault)
                     IN /\ queueDoc' = d.q
                        /\ file' = d.file
                        /\ itemScrollIndex' = 0
                        /\ lcd' = d.lcd
                        /\ lastDone' = getCurrentOrder(queueDoc).seq
                        /\ lastLost' = (oid # "" /\ pub = <<>>)
                        /\ ev' = [Quiet EXCEPT
                                    !.step = "done", !.cmd = "ADVANCE",
                                    !.pub = pub,
                                    !.ops = (IF oid # "" THEN <<"publish">>
                                             ELSE <<>>)
                                            \o <<"remove">> \o SaveOps(fault)
                                            \o d.ops]
                ELSE LET d == displayCurrentOrder(file, itemScrollIndex, fault)
                     IN /\ queueDoc' = d.q
                        /\ file' = d.file
                        /\ UNCHANGED <<itemScrollIndex, lastDone, lastLost>>
                        /\ lcd' = d.lcd
                        /\ ev' = [Quiet EXCEPT
                                    !.step = "done", !.cmd = "ADVANCE",
                                    !.ops = <<"lcd">> \o d.ops]

ScrollEligible(pin) == pin = LOW /\ scrollAge >= SCROLL_COOLDOWN

\* delay(): every difference millis() - lastX grows by dt
Elapse(age, dt, cap) == Min(age + dt, cap)

\* loop, lines 348-366; H says whether the history of the buttons is kept
ScrollStep(F, D, H) ==
  /\ pc = "scroll"
  /\ pc' = "mqtt"
  /\ UNCHANGED <<connected, accepted, lastDone, lastLost, prod, deb>>
  /\ \E pin \in {LOW, HIGH}, fault \in {"ok"} \cup F, dt \in D :
       /\ press' =
            IF H
              THEN LET b == Sampled(press.scroll, pin, ScrollEligible(pin),
                                    SCROLL_COOLDOWN)
                   IN [done |-> [press.done EXCEPT
                                   !.since = Elapse(@, dt, DONE_COOLDOWN)],
                       scroll |-> [b EXCEPT
                                     !.since = Elapse(@, dt, SCROLL_COOLDOWN)],
                       link |-> [since |-> Elapse(press.link.since, dt,
                                                  ATTEMPT_INTERVAL)]]
              ELSE press
       /\ doneAge' = Elapse(doneAge, dt, DONE_COOLDOWN)
       /\ attemptAge' = Elapse(attemptAge, dt, ATTEMPT_INTERVAL)
       /\ IF ~ScrollEligible(pin)
            THEN /\ UNCHANGED <<queueDoc, file, itemScrollIndex, lcd>>
                 /\ scrollAge' = Elapse(scrollAge, dt, SCROLL_COOLDOWN)
                 /\ ev' = [Quiet EXCEPT !.step = "scroll"]
            ELSE
              /\ scrollAge' = Elapse(0, dt, SCROLL_COOLDOWN)
              /\ IF ~queueEmpty(queueDoc)
                   THEN LET n == Len(getCurrentOrder(queueDoc).items)
                            idx == NextScroll(itemScrollIndex, n)
                            d == displayCurrentOrder(file, idx, fault)
                        IN /\ queueDoc' = d.q
                           /\ file' = d.file
                           /\ itemScrollIndex' = idx
                           /\ lcd' = d.lcd
                           /\ ev' = [Quiet EXCEPT
                                       !.step = "scroll", !.cmd = "SCROLL",
                                       !.ops = d.ops]
                   ELSE /\ UNCHANGED <<queueDoc, file, itemScrollIndex, lcd>>
                        /\ ev' = [Quiet EXCEPT
                                    !.step = "scroll", !.cmd = "SCROLL"]

(* ---------------------------- producer ------------------------------- *)
\* src/services/mqttService.js, and its size-optimised revision in
\* src/test-message-size.js (lines 160-376).  The producer builds the
\* new-order payload from an order of the database and hands it to its MQTT
\* client.  A menu item name is a string of a given length.
MenuName(n) == [i \in 1..n |-> "m"]

\* an order as the route hands it over: populated says that items[].menuItem
\* was loaded, so that item.menuItem.name can be read
DbOrder(id, t, names, populated) ==
  [id |-> id, tableNumber |-> t, names |-> names, populated |-> populated]

DbOrders ==
  {DbOrder("A", 5, <<TxtBurger>>, TRUE),
   DbOrder("B", 12, <<TxtWrap, MenuName(NAME_LIMIT)>>, TRUE),
   DbOrder("C", 3, <<MenuName(NAME_LIMIT + 1)>>, TRUE),
   DbOrder("D", 8, <<TxtSoup>>, FALSE)}

Revisions == {"service", "optimized"}

\* the name put into the payload: mqttService.js line 147, resp.
\* test-message-size.js lines 301-303
PayloadName(rev, name) ==
  IF rev = "optimized" /\ Len(name) > NAME_LIMIT
    THEN SubSeq(name, 1, NAME_LIMIT) \o <<".", ".", ".">>
    ELSE name

\* orderData and the JSON.stringify of it (pretty-printed in mqttService.js)
OrderData(rev, o) ==
  [orderId |-> o.id, tableNumber |-> o.tableNumber,
   items |-> [i \in 1..Len(o.names) |->
                [name |-> PayloadName(rev, o.names[i]), quantity |-> 1,
                 notes |-> ""]],
   pretty |-> rev = "service"]

\* the orders collection of the database: the status of each order, "none"
\* for an identifier that no order has
OrderIds == <<"A", "B", "C">>
Statuses == {"pending", "served", "paid"}
NoOrders == [i \in {OrderIds[k] : k \in 1..Len(OrderIds)} |-> "none"]

\* the MQTTService object after its constructor, beside the empty collection;
\* last is the order that the last operation was about
NewService(rev) ==
  [rev |-> rev, client |-> "null", isConnected |-> FALSE, sent |-> <<>>,
   op |-> "new", ret |-> "none", event |-> "none", orders |-> NoOrders,
   last |-> ""]

\* a publish guard that only looks at the client
RejectsWithoutClient(p) == p.client = "null"

\* publishNewOrder, line 136
Rejects(p) == p.client = "null" \/ ~p.isConnected

\* connect(), lines 18-62: mqtt.connect creates the client
ProducerConnect ==
  /\ prod.client # "open"
  /\ prod' = [prod EXCEPT !.client = "open", !.op = "connect", !.ret = "none"]
  /\ UNCHANGED <<controller, deb>>

\* the handlers of the client's events 'connect', 'error' and 'close'
ProducerOnConnect ==
  /\ prod.client = "open"
  /\ prod' = [prod EXCEPT !.isConnected = TRUE, !.op = "on connect",
                          !.event = "connect", !.ret = "none"]
  /\ UNCHANGED <<controller, deb>>

ProducerOnError ==
  /\ prod.client = "open"
  /\ prod' = [prod EXCEPT !.isConnected = FALSE, !.op = "on error",
                          !.event = "error", !.ret = "none"]
  /\ UNCHANGED <<controller, deb>>

ProducerOnClose ==
  /\ prod.client # "null"
  /\ prod' = [prod EXCEPT !.isConnected = FALSE, !.op = "on close",
                          !.event = "close", !.ret = "none"]
  /\ UNCHANGED <<controller, deb>>

\* disconnect(), lines 175-181
ProducerDisconnect ==
  /\ prod' = IF prod.client # "null"
               THEN [prod EXCEPT !.client = "ended", !.isConnected = FALSE,
                                 !.op = "disconnect", !.event = "disconnect",
                                 !.ret = "none"]
               ELSE [prod EXCEPT !.op = "disconnect", !.ret = "none"]
  /\ UNCHANGED <<controller, deb>>

\* publishNewOrder(order), lines 135-172: false without a connected client
\* and when building the payload throws, else client.publish and true
PublishNewOrder ==
  /\ \E o \in DbOrders :
       IF Rejects(prod) \/ ~o.populated
         THEN prod' = [prod EXCEPT !.op = "publishNewOrder", !.ret = "false"]
         ELSE /\ Len(prod.sent) < MaxSent
              /\ prod' = [prod EXCEPT
                            !.op = "publishNewOrder", !.ret = "true",
                            !.sent = Append(@, OrderData(prod.rev, o))]
  /\ UNCHANGED <<controller, deb>>

\* the identifier of the next order document
FreshId(orders) ==
  OrderIds[CHOOSE k \in 1..Len(OrderIds) :
             /\ orders[OrderIds[k]] = "none"
             /\ \A j \in 1..(k - 1) : orders[OrderIds[j]] # "none"]

\* POST /checkout, src/routes/guest.js lines 173-216: an empty cart or a
\* table number below 1 is an error, else the order is saved as pending and
\* the cart cleared; the route does not call the MQTT service
Checkout ==
  /\ \E k \in 1..Len(OrderIds) : prod.orders[OrderIds[k]] = "none"
  /\ \E cart \in {0, 1}, tableNumber \in {0, 5} :
       prod' = IF cart = 0 \/ tableNumber < 1
                 THEN [prod EXCEPT !.op = "checkout", !.ret = "error",
                                   !.last = ""]
                 ELSE [prod EXCEPT
                         !.op = "checkout", !.ret = "success",
                         !.last = FreshId(prod.orders),
                         !.orders[FreshId(prod.orders)] = "pending"]
  /\ UNCHANGED <<controller, deb>>

\* POST /orders/update/:id, src/routes/admin.js lines 114-118
AdminUpdate ==
  /\ \E id \in DOMAIN prod.orders, status \in Statuses :
       prod' = [prod EXCEPT
                  !.op = "update", !.ret = "none", !.last = id,
                  !.orders[id] = IF @ = "none" THEN @ ELSE status]
  /\ UNCHANGED <<controller, deb>>

\* a completion message: json says that it parses, orderId is what
\* parsed.orderId || parsed.id || parsed._id gives, or the trimmed text
DoneMessage(json, orderId) == [json |-> json, orderId |-> orderId]
DoneMessages ==
  {DoneMessage(j, id) : j \in BOOLEAN, id \in {"A", "B", "C", "Z", ""}}

\* handleOrderDone(message), lines 95-132: the collection after it
handleOrderDone(orders, msg) ==
  IF msg.orderId = "" THEN orders
  ELSE IF msg.orderId \notin DOMAIN orders THEN orders
  ELSE IF orders[msg.orderId] = "none" THEN orders
  ELSE [orders EXCEPT ![msg.orderId] = "served"]

\* the 'message' handler of the client, lines 58-60 and 82-92
ProducerOnMessage ==
  /\ prod.client = "open"
  /\ \E msg \in DoneMessages :
       prod' = [prod EXCEPT
                  !.op = "on message", !.ret = "none", !.last = msg.orderId,
                  !.orders = handleOrderDone(@, msg)]
  /\ UNCHANGED <<controller, deb>>

(* ---------------------- debounced revision --------------------------- *)
\* src/resto.ino: the earlier revision of the firmware, whose loop filters
\* the two buttons through a debounce window instead of a cooldown, and whose
\* callback has neither the size bound nor the eviction.  One button is
\* lastState (lastDoneState, lastScrollState) and age, the difference
\* millis() - lastDebounceX, kept up to DebounceCap; beside them level is the
\* last sample of the pin, held the time for which the pin had been LOW at
\* that sample, run the same time as of now, and cmds the number of commands
\* dispatched for the press in progress.
DebounceCap == DEBOUNCE_MS + LOOP_DELAY

Idle == [lastState |-> HIGH, age |-> DebounceCap, level |-> HIGH,
         held |-> 0, run |-> 0, cmds |-> 0]

Debounced == [run |-> "on", done |-> Idle, scroll |-> Idle]

\* loop, lines 141-153 (156-168): the button after its pin is read
Debounce(b, reading) ==
  LET age1 == IF reading # b.lastState THEN 0 ELSE b.age
      change == age1 > DEBOUNCE_MS /\ reading # b.lastState
      pressed == change /\ reading = LOW
      going == reading = LOW /\ b.level = LOW
  IN [lastState |-> IF change THEN reading ELSE b.lastState,
      age |-> age1,
      level |-> reading,
      held |-> IF going THEN b.run ELSE 0,
      run |-> IF going THEN b.run ELSE 0,
      cmds |-> IF reading = HIGH THEN 0
               ELSE Min((IF going THEN b.cmds ELSE 0)
                          + (IF pressed THEN 1 ELSE 0), 2),
      pressed |-> pressed]

\* the end of the iteration, dt after the pin was read
Later(b, dt) ==
  [lastState |-> b.lastState, age |-> Elapse(b.age, dt, DebounceCap),
   level |-> b.level, held |-> b.held,
   run |-> IF b.level = LOW THEN Elapse(b.run, dt, DebounceCap) ELSE 0,
   cmds |-> b.cmds]

\* String(name) + " x" + String(qty), cut to 20 columns
RestoItemLine(it) ==
  Take(it.name \o <<" ", "x">> \o Dec(it.quantity), LCD_COLS)

\* displayCurrentOrder of resto.ino, lines 402-439
RestoRender(q, idx) ==
  IF queueEmpty(q)
    THEN <<Row(TxtNoOrders), BlankRow, BlankRow, BlankRow>>
    ELSE LET its == getCurrentOrder(q).items
             line(r) == IF idx + r < Len(its)
                          THEN Row(RestoItemLine(its[idx + r + 1]))
                          ELSE BlankRow
         IN <<Row(TableLine(getCurrentOrder(q).tableNumber)),
              line(0), line(1), line(2)>>

\* what the steps of the loop pass on: queue, file, cursor, display, the
\* notices published and the time spent in delay()
RestoDisplay(s, idx) ==
  LET ld == loadQueueFromFile(s.file, "ok")
  IN [s EXCEPT !.q = ld.q, !.file = ld.file, !.idx = idx,
               !.lcd = RestoRender(ld.q, idx)]

\* mqttCallback of resto.ino, lines 252-313, on payload m
RestoCallback(s, m) ==
  IF m = NoPayload \/ ~m.json \/ ~m.hasOrderId
    THEN s
    ELSE LET arr == Append(s.q, Entry(m.order, s.n + 1))
             s1 == [s EXCEPT !.q = arr, !.file = FileArray(arr), !.n = @ + 1]
         IN IF Len(arr) = 1 THEN RestoDisplay(s1, 0) ELSE s1

\* loop, lines 171-193: the handler of a DONE press
RestoDone(s, pressed) ==
  IF ~pressed THEN s
  ELSE IF ~queueEmpty(s.q)
    THEN LET oid == getCurrentOrder(s.q).orderId
             q1 == RemoveFirst(s.q)
             s1 == [s EXCEPT
                      !.q = q1, !.file = FileArray(q1),
                      !.pub = IF oid # "" THEN <<[orderId |-> oid]>> ELSE <<>>,
                      !.done = getCurrentOrder(s.q).seq]
         IN RestoDisplay(s1, 0)
    ELSE RestoDisplay([s EXCEPT !.dt = @ + NOTICE_DELAY], s.idx)

\* loop, lines 196-217: the handler of a SCROLL press
RestoScroll(s, pressed) ==
  IF pressed /\ ~queueEmpty(s.q)
    THEN RestoDisplay(s, NextScroll(s.idx,
                                    Len(getCurrentOrder(s.q).items)))
    ELSE s

\* loop of resto.ino, lines 127-221, with a broker that accepts the session
\* and keeps it: connectMQTT or mqtt.loop, the two debounces, the two
\* handlers, delay(10).  lastAttempt is not read again once the session is up.
\* Msgs are the payloads that may arrive, Pins the levels the pins may read.
RestoIteration(Msgs, Pins, maxOrders) ==
  /\ deb.run = "on"
  /\ \E m \in Msgs, pinD \in Pins, pinS \in Pins :
       /\ (m # NoPayload) => (connected /\ accepted < maxOrders)
       /\ LET s0 == [q |-> queueDoc, file |-> file, idx |-> itemScrollIndex,
                     lcd |-> lcd, n |-> accepted, pub |-> <<>>,
                     done |-> lastDone, dt |-> LOOP_DELAY]
              s1 == IF connected THEN RestoCallback(s0, m) ELSE s0
              d == Debounce(deb.done, pinD)
              c == Debounce(deb.scroll, pinS)
              s2 == RestoDone(s1, d.pressed)
              s3 == RestoScroll(s2, c.pressed)
          IN /\ connected' = TRUE
             /\ attemptAge' = IF connected THEN attemptAge ELSE 0
             /\ queueDoc' = s3.q
             /\ file' = s3.file
             /\ itemScrollIndex' = s3.idx
             /\ lcd' = s3.lcd
             /\ accepted' = s3.n
             /\ lastDone' = s3.done
             /\ deb' = [run |-> "on", done |-> Later(d, s3.dt),
                        scroll |-> Later(c, s3.dt)]
             /\ ev' = [Quiet EXCEPT
                         !.step = "loop", !.msg = m, !.pub = s3.pub,
                         !.ops = IF connected THEN <<>>
                                 ELSE ConnectOps(TRUE),
                         !.cmd = IF d.pressed THEN "ADVANCE"
                                 ELSE IF c.pressed THEN "SCROLL" ELSE "none"]
  /\ UNCHANGED <<pc, doneAge, scrollAge, lastLost, press, prod>>

RestoLoop ==
  RestoIteration({NoPayload, PayJunk, PayNoId, PayA, PayB}, {LOW, HIGH},
                 MaxOrdersResto)

\* the same loop with both buttons released
RestoFill ==
  RestoIteration({NoPayload, PayJunk, PayA, PayB}, {HIGH}, MaxOrdersRestoFill)

(* ------------------------- specifications ----------------------------- *)
\* setup(), lines 261-265 and 295-300, on a flash that held prior:
\* ensureQueueFileExistsAndClearOnStartup, saveQueueToFile of the empty
\* array, loadQueueFromFile, displayCurrentOrder
ensureQueueFileExistsAndClearOnStartup(prior, fault) ==
  IF fault = "wopen" THEN FileMissing ELSE FileArray(<<>>)

\* a startup that resumes from the file it finds
SetupResume(prior, fault) == displayCurrentOrder(prior, 0, fault)

Setup(prior, fault) ==
  LET f1 == ensureQueueFileExistsAndClearOnStartup(prior, fault)
      f2 == saveQueueToFile(<<>>, f1, fault)
      ld == loadQueueFromFile(f2, fault)
  IN displayCurrentOrder(ld.file, 0, fault)

\* what the flash may hold when the device is switched on; the orders of
\* an earlier run carry negative arrival numbers
PriorFiles == {FileMissing, FileCorrupt, FileArray(<<>>),
               FileArray(<<Entry(OrderP, -2), Entry(OrderB, -1)>>)}

\* the button state of src/resto.ino is not part of this firmware revision
NoDebounce == [run |-> "off"]

InitController(F) ==
  /\ pc = "mqtt"
  /\ connected = FALSE
  /\ \E prior \in PriorFiles, fault \in {"ok"} \cup F :
       LET s == Setup(prior, fault)
       IN /\ queueDoc = s.q
          /\ file = s.file
          /\ lcd = s.lcd
  /\ itemScrollIndex = 0
  /\ doneAge = SetupDelay
  /\ scrollAge = SetupDelay
  /\ attemptAge = SetupDelay
  /\ accepted = 0
  /\ lastDone = 0
  /\ lastLost = FALSE
  /\ ev = Quiet
  /\ press = NoPress

\* the controller alone: no producer object, the firmware of part_002
InitAfter(F) ==
  /\ InitController(F)
  /\ prod = NewService("service")
  /\ deb = NoDebounce

\* the controller with a flash store, a heap and a publish call that do not
\* fail, every loop iteration lasting LongTick
Init == InitAfter(NoFaults)
MqttService == MqttStep(NoFaults, MaxOrders, FALSE)
DoneButton == DoneStep(NoFaults, FALSE)
ScrollButton == ScrollStep(NoFaults, {LongTick}, FALSE)
Next == MqttService \/ DoneButton \/ ScrollButton
Spec == Init /\ [][Next]_vars

\* the same controller when any step may meet one fault of AllFaults
InitFault == InitAfter(AllFaults)
MqttServiceFault == MqttStep(AllFaults, MaxOrdersFault, FALSE)
DoneButtonFault == DoneStep(AllFaults, FALSE)
ScrollButtonFault == ScrollStep(AllFaults, {LongTick}, FALSE)
NextFault == MqttServiceFault \/ DoneButtonFault \/ ScrollButtonFault
SpecFault == InitFault /\ [][NextFault]_vars

\* the same controller when only the publish call may fail
MqttServicePub == MqttStep({"pubfail"}, MaxOrdersFault, FALSE)
DoneButtonPub == DoneStep({"pubfail"}, FALSE)
ScrollButtonPub == ScrollStep({"pubfail"}, {LongTick}, FALSE)
NextPub == MqttServicePub \/ DoneButtonPub \/ ScrollButtonPub
SpecPub == Init /\ [][NextPub]_vars

\* the producer, in either revision, beside a controller that is at rest
InitProducer ==
  /\ InitController(NoFaults)
  /\ prod \in {NewService(rev) : rev \in Revisions}
  /\ deb = NoDebounce
NextProducer ==
  \/ ProducerConnect
  \/ ProducerOnConnect
  \/ ProducerOnError
  \/ ProducerOnClose
  \/ ProducerDisconnect
  \/ PublishNewOrder
SpecProducer == InitProducer /\ [][NextProducer]_vars

\* the server: the service, the checkout and admin routes, the completion
\* messages; publishNewOrder is called by the test route with its mock order
NextServer ==
  \/ ProducerConnect
  \/ ProducerOnConnect
  \/ ProducerOnClose
  \/ PublishNewOrder
  \/ Checkout
  \/ AdminUpdate
  \/ ProducerOnMessage
SpecServer == InitProducer /\ [][NextServer]_vars

\* the debounced revision of the firmware after its setup
InitResto ==
  /\ InitController(NoFaults)
  /\ prod = NewService("service")
  /\ deb = Debounced
NextResto == RestoLoop
SpecResto == InitResto /\ [][NextResto]_vars

\* the debounced revision receiving orders, its buttons released
NextRestoFill == RestoFill
SpecRestoFill == InitResto /\ [][NextRestoFill]_vars

\* the same controller with loop iterations of ShortTick or LongTick, the
\* history of the buttons kept
MqttServiceTimed == MqttStep(NoFaults, MaxOrdersTimed, TRUE)
DoneButtonTimed == DoneStep(NoFaults, TRUE)
ScrollButtonTimed == ScrollStep(NoFaults, {ShortTick, LongTick}, TRUE)
NextTimed == MqttServiceTimed \/ DoneButtonTimed \/ ScrollButtonTimed
SpecTimed == Init /\ [][NextTimed]_vars

(* ------------------------------ claims -------------------------------- *)
\* a payload that the validation of mqttCallback must drop
Malformed(m) ==
  m.length = 0 \/ m.length > MAX_MESSAGE \/ ~m.json \/ ~m.hasOrderId

\* the step from the unprimed to the primed state ran mqttCallback
CallbackStep == pc = "mqtt" /\ pc' = "done" /\ Delivered(ev')

\* the step dispatched ADVANCE, resp. SCROLL
AdvanceStep == pc = "done" /\ pc' = "scroll" /\ ev'.cmd = "ADVANCE"
ScrollCmdStep == pc = "scroll" /\ pc' = "mqtt" /\ ev'.cmd = "SCROLL"

\* C1: the number of orders in the queue, in memory and in the store, never
\* exceeds the capacity of 5
C1_QueueBounded ==
  Len(queueDoc) <= QUEUE_LIMIT /\ Len(file.content) <= QUEUE_LIMIT

\* a sixth order has arrived at a full queue
C1_Witness ==
  accepted > QUEUE_LIMIT /\ Len(queueDoc) = QUEUE_LIMIT /\ ev.evicted # 0

\* C2: an accepted order arriving at a queue of exactly 5 removes exactly the
\* order at index 0 (reported as evicted) and is appended at the tail; at a
\* queue of fewer than 5 it is appended and no order is removed
C2_DropOldest ==
  [][(CallbackStep /\ ev'.verdict = "queued") =>
       LET new == Entry(ev'.msg.order, accepted')
       IN IF Len(queueDoc) = QUEUE_LIMIT
            THEN /\ queueDoc' = Tail(queueDoc) \o <<new>>
                 /\ ev'.evicted = queueDoc[1].seq
            ELSE /\ Len(queueDoc) < QUEUE_LIMIT
                 /\ queueDoc' = queueDoc \o <<new>>
                 /\ ev'.evicted = 0]_vars

\* orders 1..5 were queued and order 6 has just replaced order 1
C2_Witness ==
  /\ ev.verdict = "queued"
  /\ ev.evicted = 1
  /\ Len(queueDoc) = QUEUE_LIMIT
  /\ \A i \in 1..QUEUE_LIMIT : queueDoc[i].seq = i + 1

\* C3: ADVANCE completes orders in arrival order: the order it completes and
\* publishes is the one at index 0, which was accepted after the order
\* completed before it and before every other order still in the queue
C3_CompletesInArrivalOrder ==
  [][(AdvanceStep /\ ~queueEmpty(queueDoc)) =>
       /\ lastDone' = queueDoc[1].seq
       /\ lastDone' > lastDone
       /\ \A i \in 2..Len(queueDoc) : queueDoc[i].seq > queueDoc[1].seq
       /\ \A i \in 1..Len(queueDoc') : queueDoc'[i].seq > lastDone'
       /\ \A i \in 1..Len(ev'.pub) :
            ev'.pub[i].orderId = queueDoc[1].orderId]_vars

\* a second completion, published, with a later order still waiting
C3_Witness ==
  /\ ev.cmd = "ADVANCE"
  /\ ev.pub # <<>>
  /\ lastDone >= 2
  /\ ~queueEmpty(queueDoc)

\* C4: a payload that parses as JSON but has no orderId is rejected: the
\* queue has the same length and content after the message as before it
C4_MissingIdRejected ==
  [][(CallbackStep /\ ev'.msg.json /\ ~ev'.msg.hasOrderId) =>
       /\ ev'.verdict # "queued"
       /\ Len(queueDoc') = Len(queueDoc)
       /\ queueDoc' = queueDoc
       /\ accepted' = accepted]_vars

\* a payload without orderId was dropped at a queue that held orders
C4_Witness ==
  /\ ev.verdict = "noid"
  /\ ev.msg.json
  /\ ~ev.msg.hasOrderId
  /\ Len(queueDoc) >= 2

\* C5: no order with an empty identifier is ever in the queue
C5_NoEmptyIdQueued ==
  \A i \in 1..Len(queueDoc) : queueDoc[i].orderId # ""

\* C6: a payload longer than 3000 bytes is dropped before any buffer is
\* allocated and before it is parsed, and the queue is unchanged; a payload
\* of exactly 3000 bytes is not rejected by the size check
C6_SizeBound ==
  [][CallbackStep =>
       /\ (ev'.msg.length > MAX_MESSAGE =>
             /\ ev'.verdict = "toolarge"
             /\ ~Did(ev', "malloc")
             /\ ~Did(ev', "parse")
             /\ queueDoc' = queueDoc
             /\ file' = file)
       /\ (ev'.msg.length = MAX_MESSAGE =>
             /\ ev'.verdict # "toolarge"
             /\ Did(ev', "malloc"))]_vars

\* a payload of 3001 bytes was dropped at a queue that held an order
C6_Witness ==
  /\ ev.verdict = "toolarge"
  /\ ev.msg.length = MAX_MESSAGE + 1
  /\ ~queueEmpty(queueDoc)

\* C7: a malformed message (zero-length, oversized, unparsable, without
\* identifier) leaves the in-memory queue, the store, the cursor and the
\* display unchanged, sounds no alert, and control returns to loop()
C7_MalformedDropped ==
  [][(CallbackStep /\ Malformed(ev'.msg)) =>
       /\ queueDoc' = queueDoc
       /\ file' = file
       /\ itemScrollIndex' = itemScrollIndex
       /\ lcd' = lcd
       /\ accepted' = accepted
       /\ ~Did(ev', "beep")
       /\ ~Did(ev', "write")
       /\ ~Did(ev', "lcd")
       /\ pc' = "done"]_vars

\* an unparsable payload was dropped while an order was on the display
C7_Witness ==
  /\ ev.verdict = "parse"
  /\ Malformed(ev.msg)
  /\ ~queueEmpty(queueDoc)
  /\ itemScrollIndex > 0

\* C8: an ADVANCE on an empty queue publishes no notice and does not write
\* to the store: the in-memory queue and the store file are as before
C8_EmptyAdvanceLeavesStore ==
  [][(AdvanceStep /\ queueEmpty(queueDoc)) =>
       /\ ev'.pub = <<>>
       /\ ~Did(ev', "write")
       /\ file' = file
       /\ queueDoc' = queueDoc]_vars

\* C9: an ADVANCE on a non-empty queue while connected emits exactly one
\* notice, carrying only the identifier of the order at index 0, removes
\* exactly that order, and sets the cursor to 0
C9_AdvancePublishesHead ==
  [][(AdvanceStep /\ ~queueEmpty(queueDoc) /\ connected) =>
       /\ ev'.pub = <<[orderId |-> queueDoc[1].orderId]>>
       /\ ev'.pub[1].orderId # ""
       /\ queueDoc' = Tail(queueDoc)
       /\ itemScrollIndex' = 0]_vars

RECURSIVE ScrollTimes(_, _, _)
\* the cursor after k SCROLLs on an order of n items
ScrollTimes(idx, n, k) ==
  IF k = 0 THEN idx ELSE ScrollTimes(NextScroll(idx, n), n, k - 1)

\* C10: on a current order of N items a SCROLL leaves the cursor at 0 when
\* N <= 3; when N > 3 it moves the cursor one step along 0,1,...,N-3,0, so
\* that the cursor is back at its starting value after exactly N-2 SCROLLs
C10_ScrollCycle ==
  [][(ScrollCmdStep /\ ~queueEmpty(queueDoc)) =>
       LET N == Len(queueDoc[1].items)
           c == itemScrollIndex
       IN IF N <= VISIBLE_ROWS
            THEN itemScrollIndex' = 0
            ELSE /\ itemScrollIndex' = IF c < N - VISIBLE_ROWS THEN c + 1 ELSE 0
                 /\ c \in 0..(N - VISIBLE_ROWS) =>
                      /\ ScrollTimes(c, N, N - 2) = c
                      /\ \A k \in 1..(N - 3) : ScrollTimes(c, N, k) # c]_vars

\* the cursor of a five-item order has reached its last window
C10_Witness ==
  /\ ev.cmd = "SCROLL"
  /\ ~queueEmpty(queueDoc)
  /\ Len(queueDoc[1].items) = 5
  /\ itemScrollIndex = 2

Max(a, b) == IF a > b THEN a ELSE b

\* the order at index 0 is not the one that was there before the step
HeadChanged ==
  /\ ~queueEmpty(queueDoc')
  /\ getCurrentOrder(queueDoc').seq # getCurrentOrder(queueDoc).seq

\* C11: in every state with a non-empty queue the display cursor lies in
\* [0, max(0, itemCount - 3)], itemCount being the number of items of the
\* order at index 0
C11_CursorInRange ==
  ~queueEmpty(queueDoc) =>
     /\ itemScrollIndex >= 0
     /\ itemScrollIndex
          <= Max(0, Len(getCurrentOrder(queueDoc).items) - VISIBLE_ROWS)

\* C12: whenever the order at index 0 changes (first order into an empty
\* queue, completion by ADVANCE, drop-oldest eviction) the display cursor
\* is 0 right after the change
C12_CursorResetOnHeadChange ==
  [][HeadChanged => itemScrollIndex' = 0]_vars

\* C13: at the end of every tick the display shows the order at index 0 (its
\* table number and the item window at the cursor), or the no-orders message
\* when the queue is empty
C13_DisplayShowsHead ==
  pc = "mqtt" => lcd = Render(queueDoc, itemScrollIndex)

\* the step sampled the DONE button, resp. the SCROLL button
DoneSample == pc = "done" /\ pc' = "scroll"
ScrollSample == pc = "scroll" /\ pc' = "mqtt"

\* C14: a command is never dispatched less than its cooldown after the
\* previous dispatch of the same command (3000 ms for ADVANCE, 1000 ms for
\* SCROLL), and a press sampled inside the cooldown is not dispatched in
\* that tick
C14_CooldownRespected ==
  [][/\ DoneSample =>
          /\ ev'.cmd = "ADVANCE" => press.done.since >= DONE_COOLDOWN
          /\ (press'.done.level = LOW /\ press.done.since < DONE_COOLDOWN)
               => (ev'.cmd = "none" /\ queueDoc' = queueDoc)
     /\ ScrollSample =>
          /\ ev'.cmd = "SCROLL" => press.scroll.since >= SCROLL_COOLDOWN
          /\ (press'.scroll.level = LOW /\ press.scroll.since < SCROLL_COOLDOWN)
               => (ev'.cmd = "none" /\ itemScrollIndex' = itemScrollIndex)]_vars

\* DONE was sampled pressed 500 ms after an ADVANCE and nothing was dispatched
C14_Witness ==
  /\ pc = "scroll"
  /\ press.done.level = LOW
  /\ press.done.since > 0
  /\ press.done.since < DONE_COOLDOWN
  /\ lastDone > 0
  /\ ev.cmd = "none"

\* C15: one continuous press yields at most one dispatch, however long it
\* is held, and a press that began during the cooldown is never dispatched
C15_OneDispatchPerPress ==
  [][/\ (DoneSample /\ ev'.cmd = "ADVANCE" /\ press.done.level = LOW)
          => (~press.done.fired /\ ~press.done.late)
     /\ (ScrollSample /\ ev'.cmd = "SCROLL" /\ press.scroll.level = LOW)
          => (~press.scroll.fired /\ ~press.scroll.late)]_vars

\* q holds an order of the run before the restart
HoldsPrior(q) == \E i \in 1..Len(q) : q[i].seq < 0

\* C16: after startup the store holds the empty array and the in-memory
\* queue is empty whatever the store file held before; no order from before
\* the restart is ever queued, stored, displayed or completed after it
C16_StartupClearsStore ==
  /\ \A prior \in PriorFiles :
       /\ Setup(prior, "ok").q = <<>>
       /\ Setup(prior, "ok").file = FileArray(<<>>)
       /\ Setup(prior, "ok").lcd = Render(<<>>, 0)
  /\ accepted = 0 => (queueDoc = <<>> /\ file = FileArray(<<>>))
  /\ ~HoldsPrior(queueDoc)
  /\ ~HoldsPrior(file.content)
  /\ lastDone >= 0
  /\ \A i \in 1..Len(ev.pub) : ev.pub[i].orderId # OrderP.orderId
  /\ \A prior \in PriorFiles :
       prior.content # <<>> => lcd # Render(prior.content, itemScrollIndex)

\* the device was started on a file holding two orders, and an ADVANCE before
\* any new order found nothing to complete
C16_Witness ==
  /\ accepted = 0
  /\ ev.cmd = "ADVANCE"
  /\ ev.pub = <<>>
  /\ queueDoc = <<>>
  /\ file = FileArray(<<>>)
  /\ \E prior \in PriorFiles :
       HoldsPrior(prior.content) /\ Setup(prior, "ok").q = queueDoc

\* the store file cannot be read as a queue: missing, or not parsable
Unreadable(f) == ~f.exists \/ ~f.valid

\* C17: loadQueueFromFile fails soft: when the store file is missing, cannot
\* be opened or does not parse, it returns with the in-memory queue set to
\* the empty array, and the caller goes on (here: the SCROLL that redraws)
C17_LoadFailsSoft ==
  [][/\ \A fault \in {"ok"} \cup AllFaults :
          (Unreadable(file) \/ fault = "ropen")
            => loadQueueFromFile(file, fault).q = <<>>
     /\ (ScrollCmdStep /\ Did(ev', "load") /\ Unreadable(file))
          => /\ queueDoc' = <<>>
             /\ lcd' = Render(<<>>, itemScrollIndex')
             /\ pc' = "mqtt"]_vars

\* a SCROLL reloaded a store file that a failed write had left unparsable,
\* while two orders were queued
C17_Witness ==
  /\ ev.cmd = "SCROLL"
  /\ Did(ev, "load")
  /\ file = FileCorrupt
  /\ accepted >= 2
  /\ queueDoc = <<>>

\* C18: every queue mutation is persisted synchronously: with saves that
\* succeed, an accepted enqueue and an ADVANCE each write the mutated queue
\* before the step ends, and after every step the store holds exactly the
\* in-memory queue
C18_SavedSynchronously ==
  [][/\ file' = FileArray(queueDoc')
     /\ (CallbackStep /\ ev'.verdict = "queued")
          => /\ Did(ev', "write")
             /\ file'.content
                  = Enqueue(queueDoc, Entry(ev'.msg.order, accepted'))
     /\ (AdvanceStep /\ ~queueEmpty(queueDoc))
          => /\ Did(ev', "write")
             /\ file'.content = Tail(queueDoc)]_vars

\* an ADVANCE has written a queue that still holds an order
C18_Witness ==
  /\ ev.cmd = "ADVANCE"
  /\ Did(ev, "write")
  /\ lastDone >= 1
  /\ ~queueEmpty(queueDoc)
  /\ file.content = queueDoc

\* C19: when the save after an enqueue or a dequeue fails, the mutated
\* in-memory queue remains the working copy: it is what the step leaves in
\* memory, and a later display refresh (SCROLL) still works on it
C19_MemoryIsWorkingCopy ==
  [][/\ (AdvanceStep /\ ~queueEmpty(queueDoc)
           /\ file' # FileArray(Tail(queueDoc)))
          => queueDoc' = Tail(queueDoc)
     /\ LET new == Enqueue(queueDoc, Entry(ev'.msg.order, accepted'))
        IN (CallbackStep /\ ev'.verdict = "queued" /\ file' # FileArray(new))
             => queueDoc' = new
     /\ (ScrollCmdStep /\ ~queueEmpty(queueDoc)
           /\ file # FileArray(queueDoc)
           /\ Len(queueDoc) > Len(file.content))
          => queueDoc' = queueDoc]_vars

\* the step serviced the network: connectMQTT() or mqtt.loop()
NetworkStep == pc = "mqtt" /\ pc' = "done"

\* C21: connect attempts are throttled: an attempt is made only when at
\* least 5000 ms have passed since the previous one, and never in a tick in
\* which the session is connected
C21_ConnectThrottled ==
  [][NetworkStep =>
       /\ Did(ev', "connect")
            => (~connected /\ press.link.since >= ATTEMPT_INTERVAL)
       /\ press.link.since < ATTEMPT_INTERVAL => ~Did(ev', "connect")
       /\ connected => ~Did(ev', "connect")]_vars

\* a tick 500 ms after a failed attempt made no attempt
C21_Witness ==
  /\ pc = "done"
  /\ ~connected
  /\ press.link.since > 0
  /\ press.link.since < ATTEMPT_INTERVAL
  /\ ev.step = "mqtt"
  /\ ev.ops = <<>>

\* C22: every successful connect attempt subscribes to the new-order topic
\* in the same step, before any inbound message is dispatched; a message is
\* dispatched only in a session whose connect subscribed
C22_SubscribeOnConnect ==
  [][NetworkStep =>
       /\ (~connected /\ connected')
            => /\ ev'.ops = <<"connect", "subscribe">>
               /\ ~Delivered(ev')
       /\ Did(ev', "connect") /\ ~connected' => ~Did(ev', "subscribe")
       /\ Delivered(ev') => (connected /\ ~Did(ev', "connect"))]_vars

\* the session was lost after an order had been accepted, and the reconnect
\* has subscribed again
C22_Witness ==
  /\ connected
  /\ accepted >= 1
  /\ ev.step = "mqtt"
  /\ ev.ops = <<"connect", "subscribe">>

\* C23: a failed completion publish is never retried: when ADVANCE finds
\* the transport disconnected or the publish call fails, the head order is
\* still removed from the queue and from the store, and no later ADVANCE
\* publishes a notice for that order
C23_NoPublishRetry ==
  [][(AdvanceStep /\ ~queueEmpty(queueDoc)) =>
       /\ (queueDoc[1].orderId # "" /\ ev'.pub = <<>>)
            => /\ queueDoc' = Tail(queueDoc)
               /\ file' = FileArray(Tail(queueDoc))
       /\ (lastLost /\ queueDoc[1].seq = lastDone) => ev'.pub = <<>>]_vars

\* the publish call failed while connected: the order was removed from the
\* queue and the store, and its notice was lost
C23_Witness ==
  /\ ev.cmd = "ADVANCE"
  /\ Did(ev, "publish")
  /\ ev.pub = <<>>
  /\ connected
  /\ lastLost
  /\ lastDone >= 2
  /\ file = FileArray(queueDoc)

\* C24: within one tick the network is serviced before the buttons: an
\* order delivered in a tick is in the queue and in the store before a button
\* command of that tick acts, so an eligible ADVANCE in the tick in which an
\* order arrived on an empty queue completes that order
C24_NetworkBeforeButtons ==
  [][/\ DoneSample => ev.step = "mqtt"
     /\ ScrollSample => ev.step = "done"
     /\ (DoneSample /\ ev.verdict = "queued" /\ ev'.cmd = "ADVANCE")
          => /\ \E i \in 1..Len(queueDoc) : queueDoc[i].seq = accepted
             /\ Did(ev, "write")
             /\ file = FileArray(queueDoc)
             /\ Len(queueDoc) = 1
                  => /\ lastDone' = accepted
                     /\ queueDoc' = <<>>
                     /\ file' = FileArray(<<>>)]_vars

\* an order has just been accepted onto the empty queue and saved, and the
\* DONE handler of the same tick is about to run with its cooldown over
C24_Witness ==
  /\ pc = "done"
  /\ ev.verdict = "queued"
  /\ Did(ev, "write")
  /\ Len(queueDoc) = 1
  /\ queueDoc[1].seq = accepted
  /\ file = FileArray(queueDoc)
  /\ doneAge >= DONE_COOLDOWN

\* the four rows for queue q and cursor idx when an item is written as txt(it)
Shown(q, idx, txt(_)) ==
  IF Len(q) = 0
    THEN <<Row(TxtNoOrders), Row(<<>>), Row(<<>>), Row(<<>>)>>
    ELSE LET o == q[1]
             n == Len(o.items)
         IN <<Row(Take(TxtTable \o Dec(o.tableNumber), LCD_COLS))>>
              \o [r \in 1..VISIBLE_ROWS |->
                    IF idx + (r - 1) < n THEN Row(txt(o.items[idx + r]))
                    ELSE Row(<<>>)]

\* "<name> x<quantity>" cut to the width of the display
NameTimesQuantity(it) ==
  Take(it.name \o <<" ", "x">> \o Dec(it.quantity), LCD_COLS)

\* the first 15 characters of the name, then " x<quantity>", cut to the width
ShortNameTimesQuantity(it) ==
  Take(Take(it.name, NAME_MAX) \o <<" ", "x">> \o Dec(it.quantity), LCD_COLS)

\* the step ended with a displayCurrentOrder
Redrawn == ev'.ops # <<>> /\ ev'.ops[Len(ev'.ops)] = "lcd"

C26_RejectWhenNotConnected ==
  /\ [](prod.isConnected => prod.event = "connect" /\ prod.client = "open")
  /\ [][(PublishNewOrder /\ (prod.client = "null" \/ ~prod.isConnected))
          => (prod'.ret = "false" /\ prod'.sent = prod.sent)]_vars

\* a publish was accepted, the connection closed, and the next publish was
\* rejected
C26_Witness ==
  /\ prod.op = "publishNewOrder"
  /\ prod.ret = "false"
  /\ prod.client = "open"
  /\ ~prod.isConnected
  /\ prod.event = "close"
  /\ Len(prod.sent) = 1

\* C27: every item name in a payload the producer sends has at most 30
\* characters.
C27_NamesTruncated ==
  \A k \in 1..Len(prod.sent) :
    \A i \in 1..Len(prod.sent[k].items) :
      Len(prod.sent[k].items[i].name) <= NAME_LIMIT

\* index 0 of the store's content, NoOrder when the store holds no order
StoreHead(f) ==
  IF f.exists /\ f.valid /\ Len(f.content) > 0 THEN f.content[1] ELSE NoOrder

\* C28: the current order that the handlers of ADVANCE and SCROLL inspect is
\* the head of the queue in the store: the order that an ADVANCE publishes
\* and removes is index 0 of the store's content, and a handler finds the
\* queue empty exactly when the store holds no order.
C28_InspectsStoreHead ==
  [][(AdvanceStep \/ ScrollCmdStep) =>
       /\ getCurrentOrder(queueDoc) = StoreHead(file)
       /\ \A i \in 1..Len(ev'.pub) :
            ev'.pub[i].orderId = StoreHead(file).orderId]_vars

\* the arrival numbers of the orders of a queue
Seqs(q) == {q[i].seq : i \in 1..Len(q)}

\* the position of the order with arrival number n in q
Pos(q, n) == CHOOSE i \in 1..Len(q) : q[i].seq = n

\* the orders that the step may take out of the queue: the head, by an
\* ADVANCE or by the eviction that makes room for an accepted order
Leaving ==
  IF (AdvanceStep /\ Did(ev', "remove")) \/ (CallbackStep /\ ev'.evicted # 0)
    THEN {getCurrentOrder(queueDoc).seq}
    ELSE {}

\* C29: an accepted order is in the queue after the step that accepted it and
\* stays there, in its position relative to the other orders and only once,
\* until an ADVANCE removes it from index 0 or an eviction drops it as the
\* oldest: no other step removes, duplicates or reorders queued orders.
C29_OrdersStayQueued ==
  [][/\ (CallbackStep /\ ev'.verdict = "queued")
          => (queueDoc' # <<>> /\ queueDoc'[Len(queueDoc')].seq = accepted')
     /\ Seqs(queueDoc) \ Leaving \subseteq Seqs(queueDoc')
     /\ \A i, j \in 1..Len(queueDoc') :
          i # j => queueDoc'[i].seq # queueDoc'[j].seq
     /\ \A m, n \in Seqs(queueDoc) \cap Seqs(queueDoc') :
          Pos(queueDoc, m) < Pos(queueDoc, n)
            => Pos(queueDoc', m) < Pos(queueDoc', n)]_vars

\* C30: in the debounced revision a press held LOW for longer than
\* DEBOUNCE_MS is accepted: by the end of the iteration that reads the pin
\* LOW for longer than the window, exactly one command has been dispatched
\* for that press.
C30_HeldPressAccepted ==
  /\ deb.done.held > DEBOUNCE_MS => deb.done.cmds = 1
  /\ deb.scroll.held > DEBOUNCE_MS => deb.scroll.cmds = 1

\* C31: debouncing lies underneath the cooldown: a command is dispatched only
\* for a level that was already active at the previous sample of the pin, so
\* an active level seen in a single sample dispatches nothing even when the
\* cooldown has elapsed.
C31_DebouncedUnderCooldown ==
  [][/\ (DoneSample /\ ev'.cmd = "ADVANCE") => press.done.level = LOW
     /\ (ScrollSample /\ ev'.cmd = "SCROLL") => press.scroll.level = LOW]_vars

\* C32: the cooldown suppresses only presses that follow an earlier dispatch
\* of the same command: a press that is sampled and not dispatched comes less
\* than the cooldown after such a dispatch, so a press with no dispatch
\* before it since startup is dispatched in the tick that samples it.
C32_FirstPressDispatched ==
  [][/\ (DoneSample /\ press'.done.level = LOW /\ ev'.cmd = "none")
          => press.done.since < DONE_COOLDOWN
     /\ (ScrollSample /\ press'.scroll.level = LOW /\ ev'.cmd = "none")
          => press.scroll.since < SCROLL_COOLDOWN]_vars

\* the place of the first op in what the step did
OpAt(e, op) == CHOOSE i \in 1..Len(e.ops) : e.ops[i] = op

\* C33: an ADVANCE dequeues, then publishes, then refreshes: the head is
\* removed and the store rewritten before the completion notice is published,
\* and the display is redrawn after the publish.
C33_DequeueBeforePublish ==
  [][(AdvanceStep /\ Did(ev', "publish")) =>
       /\ Did(ev', "remove") /\ Did(ev', "write") /\ Did(ev', "lcd")
       /\ OpAt(ev', "remove") < OpAt(ev', "publish")
       /\ OpAt(ev', "write") < OpAt(ev', "publish")
       /\ OpAt(ev', "publish") < OpAt(ev', "lcd")]_vars

\* C34: the debounced revision bounds its queue at 10: the queue never holds
\* more than 10 orders, an order arriving at a queue of 10 evicting index 0.
C34_RestoQueueBounded ==
  /\ [](Len(queueDoc) <= 10)
  /\ [][Len(queueDoc) = 10 /\ accepted' # accepted
          => queueDoc' = Tail(queueDoc) \o <<queueDoc'[Len(queueDoc')]>>]_vars

\* C35: every order that a checkout creates while the producer is connected
\* is published exactly once on the new-order topic: the checkout hands one
\* message carrying the identifier of the new order to the client.
C35_CheckoutPublishes ==
  [][(Checkout /\ prod'.ret = "success" /\ ~Rejects(prod)) =>
       /\ Len(prod'.sent) = Len(prod.sent) + 1
       /\ prod'.sent[Len(prod'.sent)].orderId = prod'.last]_vars

\* C38: a completion message never moves the status of an order backwards:
\* an order that is 'paid' is still 'paid' after handleOrderDone, and
\* handling a message twice leaves what handling it once leaves.
C38_StatusNeverBackwards ==
  /\ [](\A m \in DoneMessages :
          handleOrderDone(handleOrderDone(prod.orders, m), m)
            = handleOrderDone(prod.orders, m))
  /\ [][ProducerOnMessage =>
          \A id \in DOMAIN prod.orders :
            prod.orders[id] = "paid" => prod'.orders[id] = "paid"]_vars

\* C36: the device publishes at most one completion notice for an accepted
\* order: an ADVANCE does not publish a notice for the order that the
\* previous ADVANCE completed and published.
C36_OneNoticePerOrder ==
  [][(AdvanceStep /\ ~queueEmpty(queueDoc) /\ queueDoc[1].seq = lastDone
        /\ ~lastLost) => ev'.pub = <<>>]_vars

\* C37: no two entries of the queue carry the same orderId: a message
\* delivered again with an identifier that is queued adds no entry.
C37_NoDuplicateIds ==
  \A i, j \in 1..Len(queueDoc) :
    i # j => queueDoc[i].orderId # queueDoc[j].orderId

====
